---- MODULE Spec2Model ----
(***************************************************************************)
(* Real-time conversation messaging of saas-community-backend              *)
(* (src/internal/messaging): the Conversation Store (PostgresRepository),  *)
(* the Messaging Service (service) and the Realtime Hub (Hub, Client).     *)
(*                                                                         *)
(* The store is the record db of three tables.  Every repository method is *)
(* an operator from a table state to a table state, one per SQL statement  *)
(* where a method issues several, because the repository opens no          *)
(* transaction: each statement commits on its own.                         *)
(***************************************************************************)
EXTENDS Integers, Sequences, FiniteSets, TLC

\* ---------------------------------------------------------------- bounds
NUsers == 2
MaxConvs == 2
MaxMsgs == 2
\* Hub.broadcast holds 256 messages and Client.Send 256 events in the program;
\* the model keeps the channels bounded with smaller capacities.
BroadcastCap == 1
SendCap == 2
\* Client objects made by HandleWebSocket over the run.
NClients == 2
\* Service calls that can be in progress at once.
MaxCalls == 2
\* typing and stop_typing frames read by the readPumps, all together
MaxTyping == 2

Users == 1..NUsers
ConvIds == 1..MaxConvs
ClientIds == 1..NClients
\* The clients that connect where every goroutine's progress is followed.
MaxLive == 1
LiveIds == 1..MaxLive
CallIds == 1..MaxCalls
ConvTypes == {"direct", "group"}
Contents == {"hi"}
\* The contents an UpdateMessageRequest may carry, and the NULL content.
Edits == {"hello"}
Null == "null"
\* The page size GetMessages falls back to, and the largest it accepts.
DefaultLimit == 50
MaxLimit == 100
\* The page size GetUserConversations falls back to, and the largest it accepts.
ConversationsDefaultLimit == 20
ConversationsMaxLimit == 50

VARIABLES
    db,            \* the tables conversations, conversation_participants, messages
    lastDirect,    \* the last completed call, if it was GetOrCreateDirectConversation
    calls,         \* the Service calls in progress, each in its own goroutine
    broadcast,     \* Hub.broadcast: the buffered channel of BroadcastMessage
    clients,       \* Hub.clients: user id -> set of clients
    conversations, \* Hub.conversations: conversation id -> set of clients
    send,          \* Client.Send of each client: the events buffered in it
    sendClosed,    \* whether close(client.Send) has run
    unregs,        \* how many times unregisterClient has run for the client
    fatal,         \* "no", or the runtime panic that ended the process
    cuser,         \* Client.UserID
    rp,            \* where the client's HandleWebSocket / readPump stands
    wp,            \* where the client's writePump stands
    connUp,        \* whether Client.Conn still carries frames
    typed,         \* how many typing and stop_typing frames the readPumps have read
    bu,            \* the goroutine running Hub.BroadcastToUser, if any
    reply          \* what the last Service call of a watched caller returned

hubVars == <<clients, conversations, send, sendClosed, unregs, fatal>>
sessVars == <<cuser, rp, wp, connUp, typed, bu>>
vars == <<db, lastDirect, calls, broadcast, clients, conversations, send, sendClosed, unregs, fatal,
          cuser, rp, wp, connUp, typed, bu, reply>>

\* ------------------------------------------------------- Conversation Store

\* conversation_participants is keyed by (conversation_id, user_id)
\* (CONSTRAINT unique_participant): db.parts maps the pairs that have a row to
\* the row.
EmptyDb == [convs |-> <<>>, parts |-> <<>>, msgs |-> <<>>]

\* The clock that stamps created_at and last_message_at: it advances with
\* every row inserted into conversations and messages, so the timestamps of
\* two rows compare as their insertions do.
Now(d) == Len(d.convs) + Len(d.msgs)

ConvExists(d, c) == c \in 1..Len(d.convs)

HasRow(d, c, u) == <<c, u>> \in DOMAIN d.parts

\* A new participant row: left_at NULL, unread_count 0, no read cursor, not
\* archived.
NewRow(role) ==
    [left |-> FALSE, role |-> role, unread |-> 0, lastRead |-> 0, archived |-> FALSE]

\* INSERT INTO conversations ... RETURNING id: ids are SERIAL, the new id is
\* the next one; last_message_id starts NULL (0).
CreateConversation(d, type, createdBy) ==
    [d EXCEPT !.convs = Append(@, [type |-> type, createdBy |-> createdBy, lastMessageId |-> 0,
                                   lastMessageAt |-> 0, createdAt |-> Now(d) + 1])]

\* INSERT ... ON CONFLICT (conversation_id, user_id) DO UPDATE SET left_at = NULL
AddParticipant(d, c, u, role) ==
    IF HasRow(d, c, u)
    THEN [d EXCEPT !.parts[<<c, u>>].left = FALSE]
    ELSE [d EXCEPT !.parts = (<<c, u>> :> NewRow(role)) @@ @]

\* A removal that deletes the row.
RemoveParticipantRow(d, c, u) ==
    [d EXCEPT !.parts = [k \in (DOMAIN @) \ {<<c, u>>} |-> @[k]]]

\* UPDATE conversation_participants SET left_at = CURRENT_TIMESTAMP WHERE ...
RemoveParticipant(d, c, u) ==
    IF HasRow(d, c, u)
    THEN [d EXCEPT !.parts[<<c, u>>].left = TRUE]
    ELSE d

\* The check without its left_at filter: any row counts.
EverParticipant(d, c, u) == HasRow(d, c, u)

\* SELECT EXISTS(... WHERE conversation_id = c AND user_id = u AND left_at IS NULL)
IsParticipant(d, c, u) ==
    HasRow(d, c, u) /\ ~d.parts[<<c, u>>].left

ActiveParticipants(d, c) == {u \in Users : IsParticipant(d, c, u)}

\* The result of a call: err is "ok" or the error, val the id returned.
Ok(v) == [err |-> "ok", val |-> v]
Err(e) == [err |-> e, val |-> 0]

\* A lookup that reads the conversation before it checks the participant.
GetConversationByIDLookupFirst(d, c, u) ==
    IF ~ConvExists(d, c) THEN Err("ConversationNotFound")
    ELSE IF ~IsParticipant(d, c, u) THEN Err("NotParticipant")
    ELSE Ok(c)

\* PostgresRepository.GetConversationByID: the participant check comes first.
GetConversationByID(d, c, u) ==
    IF ~IsParticipant(d, c, u) THEN Err("NotParticipant")
    ELSE IF ~ConvExists(d, c) THEN Err("ConversationNotFound")
    ELSE Ok(c)

\* The rows the query of GetDirectConversation joins: direct conversations with
\* a participant row for each user, whatever its left_at.
DirectMatches(d, u1, u2) ==
    {c \in 1..Len(d.convs) :
        /\ d.convs[c].type = "direct"
        /\ HasRow(d, c, u1)
        /\ HasRow(d, c, u2)}

\* LIMIT 1 without ORDER BY: any matching row may be the one returned, so the
\* operator gives the set of results the call can have.
GetDirectConversation(d, u1, u2) ==
    IF DirectMatches(d, u1, u2) = {}
    THEN {Err("ConversationNotFound")}
    ELSE {GetConversationByID(d, c, u1) : c \in DirectMatches(d, u1, u2)}

\* INSERT INTO messages ... RETURNING id
InsertMessage(d, c, s, content) ==
    [d EXCEPT !.msgs = Append(@, [conv |-> c, sender |-> s, content |-> content,
                                  edited |-> FALSE, deleted |-> FALSE,
                                  createdAt |-> Now(d) + 1])]

\* A pointer written only while it is still NULL.
UpdateLastMessageIfNull(d, c, m) ==
    IF ConvExists(d, c) /\ d.convs[c].lastMessageId = 0
    THEN [d EXCEPT !.convs[c].lastMessageId = m, !.convs[c].lastMessageAt = Now(d)]
    ELSE d

\* UPDATE conversations SET last_message_id = m, last_message_at = now WHERE id = c
UpdateLastMessage(d, c, m) ==
    IF ConvExists(d, c)
    THEN [d EXCEPT !.convs[c].lastMessageId = m, !.convs[c].lastMessageAt = Now(d)]
    ELSE d

\* The increment with its filter turned round: user_id = s.
IncrementUnreadOfSender(d, c, s) ==
    [d EXCEPT !.parts =
        [k \in DOMAIN @ |->
            IF k[1] = c /\ k[2] = s
            THEN [@[k] EXCEPT !.unread = @ + 1]
            ELSE @[k]]]

\* The increment counting every message twice.
IncrementUnreadByTwo(d, c, s) ==
    [d EXCEPT !.parts =
        [k \in DOMAIN @ |->
            IF k[1] = c /\ k[2] # s
            THEN [@[k] EXCEPT !.unread = @ + 2]
            ELSE @[k]]]

\* UPDATE conversation_participants SET unread_count = unread_count + 1
\*   WHERE conversation_id = c AND user_id != s
IncrementUnread(d, c, s) ==
    [d EXCEPT !.parts =
        [k \in DOMAIN @ |->
            IF k[1] = c /\ k[2] # s
            THEN [@[k] EXCEPT !.unread = @ + 1]
            ELSE @[k]]]

\* The three statements of PostgresRepository.CreateMessage, run back to back.
CreateMessage(d, c, s, content) ==
    LET d1 == InsertMessage(d, c, s, content)
        m  == Len(d1.msgs)
    IN  IncrementUnread(UpdateLastMessage(d1, c, m), c, s)

\* The update without its user filter: every row of the conversation is reset.
MarkAsReadEveryRow(d, c, u, m) ==
    [d EXCEPT !.parts =
        [k \in DOMAIN @ |->
            IF k[1] = c
            THEN [@[k] EXCEPT !.unread = 0, !.lastRead = m]
            ELSE @[k]]]

\* UPDATE conversation_participants SET last_read_at, last_read_message_id = m,
\*   unread_count = 0 WHERE conversation_id = c AND user_id = u
MarkAsRead(d, c, u, m) ==
    IF HasRow(d, c, u)
    THEN [d EXCEPT !.parts[<<c, u>>].unread = 0, !.parts[<<c, u>>].lastRead = m]
    ELSE d

\* SELECT ... FROM messages WHERE id = m
GetMessageByID(d, m) ==
    IF m \in 1..Len(d.msgs) THEN Ok(m) ELSE Err("MessageNotFound")

\* An update that stamps the row anew.
UpdateMessageRestamped(d, m, content) ==
    IF m \in 1..Len(d.msgs)
    THEN [d EXCEPT !.msgs[m].content = content, !.msgs[m].edited = TRUE,
                   !.msgs[m].createdAt = Now(d) + 1]
    ELSE d

\* UPDATE messages SET content = .., is_edited = TRUE, edited_at = now WHERE id = m
UpdateMessage(d, m, content) ==
    IF m \in 1..Len(d.msgs)
    THEN [d EXCEPT !.msgs[m].content = content, !.msgs[m].edited = TRUE]
    ELSE d

\* UPDATE messages SET is_deleted = TRUE, deleted_at = now, content = NULL WHERE id = m
DeleteMessage(d, m) ==
    IF m \in 1..Len(d.msgs)
    THEN [d EXCEPT !.msgs[m].content = Null, !.msgs[m].deleted = TRUE]
    ELSE d

\* The rows both queries of GetConversationMessages select:
\* WHERE conversation_id = c AND is_deleted = FALSE
Selected(d, c) == {m \in 1..Len(d.msgs) : d.msgs[m].conv = c /\ ~d.msgs[m].deleted}

\* ORDER BY created_at DESC
RECURSIVE NewestFirst(_, _)
NewestFirst(d, ms) ==
    IF ms = {} THEN <<>>
    ELSE LET top == CHOOSE m \in ms : \A o \in ms : d.msgs[o].createdAt <= d.msgs[m].createdAt
         IN  <<top>> \o NewestFirst(d, ms \ {top})

\* LIMIT limit OFFSET offset
Page(rows, limit, offset) ==
    SubSeq(rows, offset + 1, IF offset + limit < Len(rows) THEN offset + limit ELSE Len(rows))

\* What a listing returns: an error or the page (the ids of its messages,
\* newest first, and each one's row as scanned) and the total counted.
Listing(err, ids, rows, total) == [err |-> err, ids |-> ids, rows |-> rows, total |-> total]

\* The two queries of GetConversationMessages, without the participation check.
SelectMessages(d, c, u, limit, offset) ==
    LET lim == IF limit <= 0 THEN DefaultLimit ELSE limit
        ids == Page(NewestFirst(d, Selected(d, c)), lim, offset)
    IN  Listing("ok", ids, [i \in 1..Len(ids) |-> d.msgs[ids[i]]],
                Cardinality(Selected(d, c)))

\* PostgresRepository.GetConversationMessages
GetConversationMessages(d, c, u, limit, offset) ==
    IF ~IsParticipant(d, c, u)
    THEN Listing("NotParticipant", <<>>, <<>>, 0)
    ELSE SelectMessages(d, c, u, limit, offset)

\* UPDATE conversation_participants SET is_muted = .., is_archived = archived
\*   WHERE conversation_id = c AND user_id = u (is_muted is read by no query)
UpdateParticipant(d, c, u, archived) ==
    IF HasRow(d, c, u) THEN [d EXCEPT !.parts[<<c, u>>].archived = archived] ELSE d

\* An ordering by created_at alone.
CreatedAtOnly(d, c) == d.convs[c].createdAt

\* COALESCE(c.last_message_at, c.created_at)
LastActivity(d, c) ==
    IF d.convs[c].lastMessageAt = 0 THEN d.convs[c].createdAt ELSE d.convs[c].lastMessageAt

\* The rows the SELECT of GetUserConversations joins: conversations with a row
\* of the user that has left_at NULL and is_archived FALSE.
Joined(d, u) ==
    {c \in 1..Len(d.convs) :
        HasRow(d, c, u) /\ ~d.parts[<<c, u>>].left /\ ~d.parts[<<c, u>>].archived}

\* ORDER BY COALESCE(c.last_message_at, c.created_at) DESC
RECURSIVE LatestFirst(_, _)
LatestFirst(d, cs) ==
    IF cs = {} THEN <<>>
    ELSE LET top == CHOOSE c \in cs : \A o \in cs : LastActivity(d, o) <= LastActivity(d, c)
         IN  <<top>> \o LatestFirst(d, cs \ {top})

\* PostgresRepository.GetUserConversations: the COUNT filters on left_at only.
GetUserConversations(d, u, limit, offset) ==
    LET lim == IF limit <= 0 THEN ConversationsDefaultLimit ELSE limit
        ids == Page(LatestFirst(d, Joined(d, u)), lim, offset)
    IN  Listing("ok", ids, [i \in 1..Len(ids) |-> d.convs[ids[i]]],
                Cardinality({k \in DOMAIN d.parts : k[2] = u /\ ~d.parts[k].left}))

\* ------------------------------------------------------- Messaging Service

\* A WSEvent handed to the hub: its type, conversation, user and the message
\* (or the message_id of its Data) it carries; 0 where the event has none.
Event(type, c, u, m) == [type |-> type, conv |-> c, user |-> u, msg |-> m]

\* What a Service call does when it runs alone: the tables after it, what it
\* returns, and the events it hands to Hub.BroadcastToConversation.
Outcome(d, r, evs) == [db |-> d, res |-> r, events |-> evs]

\* The loop of service.CreateConversation over req.ParticipantIDs: one
\* AddParticipant(.., "member") for each id.
RECURSIVE AddParticipants(_, _, _)
AddParticipants(d, c, pids) ==
    IF pids = {} THEN d
    ELSE LET p == CHOOSE x \in pids : TRUE
         IN  AddParticipants(AddParticipant(d, c, p, "member"), c, pids \ {p})

\* service.CreateConversation after its lookup: the conversation row, the
\* creator as admin, every other requested participant as member.
CreateWithParticipants(d, u, type, pids) ==
    LET d1 == CreateConversation(d, type, u)
        c  == Len(d1.convs)
        d2 == AddParticipant(d1, c, u, "admin")
        d3 == AddParticipants(d2, c, pids \ {u})
    IN  Outcome(d3, GetConversationByID(d3, c, u), <<>>)

\* service.CreateConversation: a direct conversation asked for with exactly one
\* other participant is looked up first, and any error of the lookup falls
\* through to creation.
ServiceCreateConversation(d, u, type, pids) ==
    IF type = "direct" /\ Cardinality(pids) = 1
    THEN LET other == CHOOSE o \in pids : TRUE
         IN  {IF r.err = "ok" THEN Outcome(d, r, <<>>)
                              ELSE CreateWithParticipants(d, u, type, pids)
                : r \in GetDirectConversation(d, u, other)}
    ELSE {CreateWithParticipants(d, u, type, pids)}

\* service.GetOrCreateDirectConversation
GetOrCreateDirectConversation(d, u, other) ==
    UNION {IF r.err = "ok" THEN {Outcome(d, r, <<>>)}
                           ELSE ServiceCreateConversation(d, u, "direct", {other})
             : r \in GetDirectConversation(d, u, other)}

\* service.LeaveConversation
LeaveConversation(d, c, u) == Outcome(RemoveParticipant(d, c, u), Ok(0), <<>>)

\* A SendMessage whose event names the message before the one it stored.
SendMessageOlderEvent(d, u, c, content) ==
    IF ~IsParticipant(d, c, u)
    THEN Outcome(d, Err("NotParticipant"), <<>>)
    ELSE LET d1 == CreateMessage(d, c, u, content)
         IN  Outcome(d1, Ok(Len(d1.msgs)), <<Event("new_message", c, u, Len(d.msgs))>>)

\* service.SendMessage
SendMessage(d, u, c, content) ==
    IF ~IsParticipant(d, c, u)
    THEN Outcome(d, Err("NotParticipant"), <<>>)
    ELSE LET d1 == CreateMessage(d, c, u, content)
             m  == Len(d1.msgs)
         IN  Outcome(d1, Ok(m), <<Event("new_message", c, u, m)>>)

\* service.MarkAsRead
ServiceMarkAsRead(d, c, u, m) ==
    Outcome(MarkAsRead(d, c, u, m), Ok(0), <<Event("read", c, u, m)>>)

\* service.GetConversation
GetConversation(d, c, u) == GetConversationByID(d, c, u)

\* service.GetUserConversations
ServiceGetUserConversations(d, u, limit, offset) ==
    GetUserConversations(d, u,
        IF limit <= 0 \/ limit > ConversationsMaxLimit THEN ConversationsDefaultLimit ELSE limit,
        offset)

\* service.GetMessages
GetMessages(d, c, u, limit, offset) ==
    GetConversationMessages(d, c, u,
        IF limit <= 0 \/ limit > MaxLimit THEN DefaultLimit ELSE limit, offset)

\* An EditMessage that skips the comparison with the sender.
EditMessageOfAnyone(d, u, m, content) ==
    IF GetMessageByID(d, m).err # "ok"
    THEN Outcome(d, GetMessageByID(d, m), <<>>)
    ELSE Outcome(UpdateMessage(d, m, content), Ok(m),
                 <<Event("message_edited", d.msgs[m].conv, 0, m)>>)

\* service.EditMessage
EditMessage(d, u, m, content) ==
    IF GetMessageByID(d, m).err # "ok"
    THEN Outcome(d, GetMessageByID(d, m), <<>>)
    ELSE IF d.msgs[m].sender # u
    THEN Outcome(d, Err("Unauthorized"), <<>>)
    ELSE Outcome(UpdateMessage(d, m, content), Ok(m),
                 <<Event("message_edited", d.msgs[m].conv, 0, m)>>)

\* service.DeleteMessage
ServiceDeleteMessage(d, u, m) ==
    IF GetMessageByID(d, m).err # "ok"
    THEN Outcome(d, GetMessageByID(d, m), <<>>)
    ELSE IF d.msgs[m].sender # u
    THEN Outcome(d, Err("Unauthorized"), <<>>)
    ELSE Outcome(DeleteMessage(d, m), Ok(0),
                 <<Event("message_deleted", d.msgs[m].conv, 0, m)>>)

\* ------------------------------------------------------------ the handlers

\* What Handler.GetConversation answers for a result of the Service.
HandlerGetConversation(r) ==
    IF r.err = "ok" THEN "Success"
    ELSE IF r.err = "NotParticipant" THEN "NotFound"
    ELSE "InternalError"

\* What Handler.SendMessage answers.
HandlerSendMessage(r) ==
    IF r.err = "ok" THEN "Created"
    ELSE IF r.err = "NotParticipant" THEN "Forbidden"
    ELSE "InternalError"

\* What Handler.GetMessages answers: every error is an internal error.
HandlerGetMessages(l) == IF l.err = "ok" THEN "Success" ELSE "InternalError"

\* ------------------------------------------- the Service on a failing Store

\* The statement of a call that the database fails (no effect, an error
\* returned to the repository), if any: the lookup of a direct conversation,
\* the INSERT of a conversation, the AddParticipant of the creator, the
\* AddParticipant of the members, the INSERT of a message, the UPDATE of the
\* last-message pointer, the UPDATE of the unread counts.
ConversationFaults == {"none", "lookup", "create", "creator", "member"}
MessageFaults == {"none", "insert", "pointer", "unread"}

\* An outcome, and whether the failing statement was run by the call.
FaultOutcome(d, r, evs, failed) == [db |-> d, res |-> r, events |-> evs, failed |-> failed]

\* PostgresRepository.CreateMessage: the error of the INSERT is returned, the
\* results of the two UPDATEs are discarded.
CreateMessageFailing(d, c, s, content, fault) ==
    IF fault = "insert" THEN [db |-> d, err |-> "StorageError"]
    ELSE LET d1 == InsertMessage(d, c, s, content)
             m  == Len(d1.msgs)
             d2 == IF fault = "pointer" THEN d1 ELSE UpdateLastMessage(d1, c, m)
             d3 == IF fault = "unread" THEN d2 ELSE IncrementUnread(d2, c, s)
         IN  [db |-> d3, err |-> "ok"]

\* service.SendMessage
SendMessageFailing(d, u, c, content, fault) ==
    IF ~IsParticipant(d, c, u)
    THEN FaultOutcome(d, Err("NotParticipant"), <<>>, FALSE)
    ELSE LET r == CreateMessageFailing(d, c, u, content, fault)
             m == Len(r.db.msgs)
         IN  IF r.err # "ok"
             THEN FaultOutcome(r.db, Err(r.err), <<>>, TRUE)
             ELSE FaultOutcome(r.db, Ok(m), <<Event("new_message", c, u, m)>>,
                               fault \in {"pointer", "unread"})

\* The lookup of a direct conversation: the results it can have.
LookupFailing(d, u, other, fault) ==
    IF fault = "lookup" THEN {Err("StorageError")} ELSE GetDirectConversation(d, u, other)

\* service.CreateConversation after its lookup: an AddParticipant of a member
\* that fails is skipped (continue).
CreateWithParticipantsFailing(d, u, type, pids, fault, failed) ==
    IF fault = "create" THEN FaultOutcome(d, Err("StorageError"), <<>>, TRUE)
    ELSE LET d1 == CreateConversation(d, type, u)
             c  == Len(d1.convs)
         IN  IF fault = "creator" THEN FaultOutcome(d1, Err("StorageError"), <<>>, TRUE)
             ELSE LET d2 == AddParticipant(d1, c, u, "admin")
                      d3 == IF fault = "member" THEN d2 ELSE AddParticipants(d2, c, pids \ {u})
                  IN  FaultOutcome(d3, GetConversationByID(d3, c, u), <<>>,
                                   failed \/ (fault = "member" /\ pids \ {u} # {}))

\* service.CreateConversation: any error of the lookup falls through to creation.
CreateConversationFailing(d, u, type, pids, fault, failed) ==
    IF type = "direct" /\ Cardinality(pids) = 1
    THEN LET other == CHOOSE o \in pids : TRUE
         IN  {IF r.err = "ok"
              THEN FaultOutcome(d, r, <<>>, failed)
              ELSE CreateWithParticipantsFailing(d, u, type, pids, fault,
                                                 failed \/ fault = "lookup")
                : r \in LookupFailing(d, u, other, fault)}
    ELSE {CreateWithParticipantsFailing(d, u, type, pids, fault, failed)}

\* service.GetOrCreateDirectConversation: any error of the lookup falls
\* through to CreateConversation.
GetOrCreateDirectFailing(d, u, other, fault) ==
    UNION {IF r.err = "ok"
           THEN {FaultOutcome(d, r, <<>>, FALSE)}
           ELSE CreateConversationFailing(d, u, "direct", {other}, fault, fault = "lookup")
             : r \in LookupFailing(d, u, other, fault)}

\* ---------------------------------------------- the Service, one call at a time

\* A call that runs to its end with no other call in between.  The call
\* blocks in Hub.BroadcastToConversation while the channel is full.
Commit(o, direct) ==
    /\ fatal = "no"
    /\ Len(o.db.convs) <= MaxConvs
    /\ Len(o.db.msgs) <= MaxMsgs
    /\ Len(broadcast) + Len(o.events) <= BroadcastCap
    /\ db' = o.db
    /\ lastDirect' = direct
    /\ broadcast' = broadcast \o o.events
    /\ UNCHANGED <<calls, hubVars, sessVars>>

\* The call of a caller whose results are not watched.
Complete(o, direct) == Commit(o, direct) /\ UNCHANGED reply

\* No GetOrCreateDirectConversation call was the last one to complete.
NoCall == [u |-> 0, other |-> 0, err |-> "none", val |-> 0]

CallCreateConversation ==
    \E u \in Users, type \in ConvTypes, pids \in (SUBSET Users) \ {{}} :
        \E o \in ServiceCreateConversation(db, u, type, pids) :
            Complete(o, NoCall)

CallGetOrCreateDirect ==
    \E u \in Users, other \in Users :
        \E o \in GetOrCreateDirectConversation(db, u, other) :
            Complete(o, [u |-> u, other |-> other, err |-> o.res.err, val |-> o.res.val])

CallLeaveConversation ==
    \E u \in Users, c \in ConvIds :
        Complete(LeaveConversation(db, c, u), NoCall)

CallSendMessage ==
    \E u \in Users, c \in ConvIds, content \in Contents :
        Complete(SendMessage(db, u, c, content), NoCall)

\* The message id of the request is the newest message's (0 when there is none).
CallMarkAsRead ==
    \E u \in Users, c \in ConvIds :
        Complete(ServiceMarkAsRead(db, c, u, Len(db.msgs)), NoCall)

CallEditMessage ==
    \E u \in Users, m \in 1..MaxMsgs, content \in Edits :
        Complete(EditMessage(db, u, m, content), NoCall)

CallDeleteMessage ==
    \E u \in Users, m \in 1..MaxMsgs :
        Complete(ServiceDeleteMessage(db, u, m), NoCall)

\* What a watched caller got back: the method, the user and the conversation or
\* message of the request, the error ("ok" if none), and for a listing what
\* it holds.
Reply(op, u, x, err, list) == [op |-> op, u |-> u, x |-> x, err |-> err, list |-> list]

NoReply == Reply("none", 0, 0, "ok", Listing("ok", <<>>, <<>>, 0))

\* A call of a watched caller that changes the tables or publishes.
Answered(op, u, x, o) ==
    /\ Commit(o, NoCall)
    /\ reply' = Reply(op, u, x, o.res.err, NoReply.list)

\* What a watched caller got back from a call on a failing Store, and
\* whether a statement of the call failed.
FaultReply(op, u, x, err, failed) ==
    [op |-> op, u |-> u, x |-> x, err |-> err, list |-> NoReply.list, failed |-> failed]

AnsweredFailing(op, u, x, o) ==
    /\ Commit(o, NoCall)
    /\ reply' = FaultReply(op, u, x, o.res.err, o.failed)

FailingCreateConversation ==
    \E u \in Users, type \in ConvTypes, pids \in (SUBSET Users) \ {{}},
       fault \in ConversationFaults :
        \E o \in CreateConversationFailing(db, u, type, pids, fault, FALSE) :
            AnsweredFailing("CreateConversation", u, 0, o)

FailingGetOrCreateDirect ==
    \E u \in Users, other \in Users, fault \in ConversationFaults :
        \E o \in GetOrCreateDirectFailing(db, u, other, fault) :
            AnsweredFailing("GetOrCreateDirectConversation", u, other, o)

FailingSendMessage ==
    \E u \in Users, c \in ConvIds, content \in Contents, fault \in MessageFaults :
        AnsweredFailing("SendMessage", u, c, SendMessageFailing(db, u, c, content, fault))

RequestSendMessage ==
    \E u \in Users, c \in ConvIds, content \in Contents :
        Answered("SendMessage", u, c, SendMessage(db, u, c, content))

RequestEditMessage ==
    \E u \in Users, m \in 1..MaxMsgs, content \in Edits :
        Answered("EditMessage", u, m, EditMessage(db, u, m, content))

RequestDeleteMessage ==
    \E u \in Users, m \in 1..MaxMsgs :
        Answered("DeleteMessage", u, m, ServiceDeleteMessage(db, u, m))

RequestGetConversation ==
    \E u \in Users, c \in ConvIds :
        /\ fatal = "no"
        /\ reply' = Reply("GetConversation", u, c, GetConversation(db, c, u).err, NoReply.list)
        /\ UNCHANGED <<db, lastDirect, calls, broadcast, hubVars, sessVars>>

\* The limits and offsets of the requests: no limit, a page of one, the first
\* page and the one after its first row.
RequestGetMessages ==
    \E u \in Users, c \in ConvIds, limit \in {0, 1}, offset \in {0, 1} :
        /\ fatal = "no"
        /\ reply' = Reply("GetMessages", u, c, GetMessages(db, c, u, limit, offset).err,
                          GetMessages(db, c, u, limit, offset))
        /\ UNCHANGED <<db, lastDirect, calls, broadcast, hubVars, sessVars>>

RequestGetUserConversations ==
    \E u \in Users, limit \in {0, 1}, offset \in {0, 1} :
        /\ fatal = "no"
        /\ reply' = Reply("GetUserConversations", u, 0, "ok",
                          ServiceGetUserConversations(db, u, limit, offset))
        /\ UNCHANGED <<db, lastDirect, calls, broadcast, hubVars, sessVars>>

\* A caller of the Repository archives or unarchives a participant row.
CallUpdateParticipant ==
    \E u \in Users, c \in ConvIds, archived \in BOOLEAN :
        /\ fatal = "no"
        /\ db' = UpdateParticipant(db, c, u, archived)
        /\ UNCHANGED <<lastDirect, calls, broadcast, hubVars, sessVars, reply>>

\* ------------------------------------- the Service, statement by statement

\* A goroutine serving no call.  In a call, u is the caller, x the
\* conversation (or the other user) of the request, m the id the call got
\* back from its INSERT, pc the statement it runs next.
Idle == [op |-> "none", pc |-> "idle", u |-> 0, x |-> 0, m |-> 0]

Running(op, pc, u, x, m) == [op |-> op, pc |-> pc, u |-> u, x |-> x, m |-> m]

\* What a statement of a call leaves alone.
StatementFrame == UNCHANGED <<lastDirect, broadcast, hubVars, sessVars, reply>>

\* service.SendMessage up to its IsParticipant check.
SendMessageBegin(k) ==
    \E u \in Users, c \in ConvIds :
        /\ fatal = "no"
        /\ calls[k] = Idle
        /\ Len(db.msgs) + Cardinality({j \in CallIds : calls[j].pc = "insert"}) < MaxMsgs
        /\ calls' = [calls EXCEPT ![k] =
                        IF IsParticipant(db, c, u)
                        THEN Running("SendMessage", "insert", u, c, 0)
                        ELSE Idle]
        /\ UNCHANGED db
        /\ StatementFrame

\* CreateMessage, first statement: the INSERT, which returns the id.
SendMessageInsert(k) ==
    /\ fatal = "no"
    /\ calls[k].op = "SendMessage" /\ calls[k].pc = "insert"
    /\ \E content \in Contents :
          db' = InsertMessage(db, calls[k].x, calls[k].u, content)
    /\ calls' = [calls EXCEPT ![k].pc = "pointer", ![k].m = Len(db.msgs) + 1]
    /\ StatementFrame

\* CreateMessage, second statement: the last-message pointer.
SendMessagePointer(k) ==
    /\ fatal = "no"
    /\ calls[k].op = "SendMessage" /\ calls[k].pc = "pointer"
    /\ db' = UpdateLastMessage(db, calls[k].x, calls[k].m)
    /\ calls' = [calls EXCEPT ![k].pc = "unread"]
    /\ StatementFrame

\* CreateMessage, third statement: the unread counters.
SendMessageUnread(k) ==
    /\ fatal = "no"
    /\ calls[k].op = "SendMessage" /\ calls[k].pc = "unread"
    /\ db' = IncrementUnread(db, calls[k].x, calls[k].u)
    /\ calls' = [calls EXCEPT ![k].pc = "publish"]
    /\ StatementFrame

\* service.SendMessage up to the return of CreateMessage, whose statements
\* wait for nothing but the Store.
SendMessageStore(k) ==
    \E u \in Users, c \in ConvIds, content \in Contents :
        /\ fatal = "no"
        /\ calls[k] = Idle
        /\ Len(db.msgs) < MaxMsgs
        /\ IsParticipant(db, c, u)
        /\ db' = CreateMessage(db, c, u, content)
        /\ calls' = [calls EXCEPT ![k] =
                        Running("SendMessage", "publish", u, c, Len(db.msgs) + 1)]
        /\ StatementFrame

\* service.SendMessage hands new_message to Hub.BroadcastToConversation, which
\* blocks while the channel is full, and returns.
SendMessagePublish(k) ==
    /\ fatal = "no"
    /\ calls[k].op = "SendMessage" /\ calls[k].pc = "publish"
    /\ Len(broadcast) < BroadcastCap
    /\ broadcast' = Append(broadcast, Event("new_message", calls[k].x, calls[k].u, calls[k].m))
    /\ calls' = [calls EXCEPT ![k] = Idle]
    /\ UNCHANGED <<db, lastDirect, hubVars, sessVars, reply>>

\* service.MarkAsRead up to the UPDATE of the participant row.
MarkAsReadUpdate(k) ==
    \E u \in Users, c \in ConvIds :
        /\ fatal = "no"
        /\ calls[k] = Idle
        /\ db' = MarkAsRead(db, c, u, Len(db.msgs))
        /\ calls' = [calls EXCEPT ![k] = Running("MarkAsRead", "publish", u, c, Len(db.msgs))]
        /\ StatementFrame

\* service.MarkAsRead hands the read event to the hub and returns.
MarkAsReadPublish(k) ==
    /\ fatal = "no"
    /\ calls[k].op = "MarkAsRead" /\ calls[k].pc = "publish"
    /\ Len(broadcast) < BroadcastCap
    /\ broadcast' = Append(broadcast, Event("read", calls[k].x, calls[k].u, calls[k].m))
    /\ calls' = [calls EXCEPT ![k] = Idle]
    /\ UNCHANGED <<db, lastDirect, hubVars, sessVars, reply>>

\* ------------------------------------------------------------ Realtime Hub

\* A registerClient that makes the client the only one of its user.
RegisterClientAlone(cl, u, idx) == [idx EXCEPT ![u] = {cl}]

\* registerClient: h.clients[client.UserID][client] = true
RegisterClient(cl, u, idx) == [idx EXCEPT ![u] = @ \cup {cl}]

\* An unregister that deletes the user's whole entry of the index.
UnregisterWholeUser(cl, idx) == [idx EXCEPT ![cuser[cl]] = {}]

\* unregisterClient, the user index: delete(clients, client).
UnregisterFromClients(cl, idx) == [idx EXCEPT ![cuser[cl]] = @ \ {cl}]

\* An unregisterClient that leaves the subscriptions as they are.
KeepSubscriptions(cl, subs) == subs

\* unregisterClient, the subscriptions: delete(clients, client) for every
\* conversation.
UnregisterFromConversations(cl, subs) == [c \in DOMAIN subs |-> subs[c] \ {cl}]

\* subscribeToConversation
SubscribeToConversation(cl, c, subs) == [subs EXCEPT ![c] = @ \cup {cl}]

\* unsubscribeFromConversation
UnsubscribeFromConversation(cl, c, subs) == [subs EXCEPT ![c] = @ \ {cl}]

\* A presence query that holds every user of the index to be online.
IsUserKnown(idx, u) == u \in DOMAIN idx

\* Hub.IsUserOnline: len(h.clients[userID]) > 0; a user without an entry has
\* the nil map, of length 0.
IsUserOnline(idx, u) == u \in DOMAIN idx /\ idx[u] # {}

\* Hub.GetOnlineUsers: the loop over userIDs appends those with a client.
RECURSIVE GetOnlineUsers(_, _)
GetOnlineUsers(idx, ids) ==
    IF ids = <<>> THEN <<>>
    ELSE LET u == Head(ids)
         IN  (IF u \in DOMAIN idx /\ idx[u] # {} THEN <<u>> ELSE <<>>)
                 \o GetOnlineUsers(idx, Tail(ids))

\* A send that makes room in a full buffer by dropping its oldest event.
TrySendDropOldest(q, ev) ==
    IF Len(q) < SendCap THEN Append(q, ev) ELSE Append(Tail(q), ev)

\* A send that puts the event in front of the events already buffered.
TrySendInFront(q, ev) == IF Len(q) < SendCap THEN <<ev>> \o q ELSE q

\* select { case client.Send <- data: default: }: the buffer after the attempt.
\* A full buffer keeps its contents.
TrySend(q, ev) == IF Len(q) < SendCap THEN Append(q, ev) ELSE q

\* A broadcastToConversation that sends to every registered client, subscribed
\* to the conversation or not.
DeliverToEveryClient(targets, ev) ==
    /\ send' = [cl \in ClientIds |->
                   IF cl \in clients[cuser[cl]] THEN TrySend(send[cl], ev) ELSE send[cl]]
    /\ UNCHANGED fatal

\* A broadcastToConversation with a plain send, client.Send <- data, which
\* waits until every subscriber has room.
DeliverBlocking(targets, ev) ==
    /\ \A cl \in targets : Len(send[cl]) < SendCap
    /\ send' = [cl \in ClientIds |->
                   IF cl \in targets THEN Append(send[cl], ev) ELSE send[cl]]
    /\ UNCHANGED fatal

\* broadcastToConversation: one TrySend for each client subscribed to the
\* event's conversation.  A send on a closed channel panics.
Deliver(targets, ev) ==
    IF \E cl \in targets : sendClosed[cl]
    THEN /\ fatal' = "send on closed channel"
         /\ UNCHANGED send
    ELSE /\ send' = [cl \in ClientIds |->
                        IF cl \in targets THEN TrySend(send[cl], ev) ELSE send[cl]]
         /\ UNCHANGED fatal

\* Hub.Run, case msg := <-h.broadcast
HubBroadcast ==
    /\ fatal = "no"
    /\ broadcast # <<>>
    /\ broadcast' = Tail(broadcast)
    /\ Deliver(conversations[Head(broadcast).conv], Head(broadcast))
    /\ UNCHANGED <<db, lastDirect, calls, clients, conversations, sendClosed, unregs, sessVars, reply>>

\* What the goroutine in BroadcastToUser holds after a write by the hub to the
\* inner map of cl's user: the range runs outside h.mu, so an entry written
\* meanwhile may or may not be produced; an inner map that became empty was
\* deleted from h.clients and no later registration reaches it.
MapWritten(cl, idx) ==
    IF bu.pc # "idle" /\ bu.attached /\ cuser[cl] = bu.user
    THEN [bu EXCEPT !.changed = @ \cup {cl}, !.attached = idx[bu.user] # {}]
    ELSE bu

\* What the hub and the Service leave alone in the sessions.
SessionFrame == UNCHANGED <<db, lastDirect, calls, reply>>

\* HandleWebSocket: the upgraded connection, the Client of user u with its
\* empty Send, h.hub.Register(client) taken by Hub.Run (case client :=
\* <-h.register), then writePump and readPump started.
HandleWebSocket(cl) ==
    \E u \in Users :
        /\ fatal = "no"
        /\ rp[cl] = "new"
        /\ cuser' = [cuser EXCEPT ![cl] = u]
        /\ clients' = RegisterClient(cl, u, clients)
        /\ bu' = IF bu.pc # "idle" /\ bu.attached /\ u = bu.user
                 THEN [bu EXCEPT !.changed = @ \cup {cl}]
                 ELSE bu
        /\ rp' = [rp EXCEPT ![cl] = "read"]
        /\ wp' = [wp EXCEPT ![cl] = "run"]
        /\ connUp' = [connUp EXCEPT ![cl] = TRUE]
        /\ UNCHANGED <<broadcast, conversations, send, sendClosed, unregs, fatal, typed>>
        /\ SessionFrame

\* A watched caller hands to Hub.Register a Client that HandleWebSocket has
\* registered and the hub has not unregistered yet; Hub.Run takes it (case
\* client := <-h.register).
RequestRegister(cl) ==
    /\ fatal = "no"
    /\ rp[cl] \in {"read", "unregister"}
    /\ clients' = RegisterClient(cl, cuser[cl], clients)
    /\ bu' = IF bu.pc # "idle" /\ bu.attached /\ cuser[cl] = bu.user
             THEN [bu EXCEPT !.changed = @ \cup {cl}]
             ELSE bu
    /\ reply' = Reply("Register", cuser[cl], cl, "ok", NoReply.list)
    /\ UNCHANGED <<db, lastDirect, calls, broadcast>>
    /\ UNCHANGED <<conversations, send, sendClosed, unregs, fatal>>
    /\ UNCHANGED <<cuser, rp, wp, connUp, typed>>

\* The user ids a presence query is asked about: the users, and one id that
\* never connects.
UserIds == 1..(NUsers + 1)

\* The lists of user ids handed to GetOnlineUsers, repeated ids included.
UserIdLists == UNION {[1..n -> UserIds] : n \in 0..2}

\* A watched caller asks Hub.IsUserOnline; the answer is recorded in place of
\* the error.
RequestIsUserOnline ==
    \E u \in UserIds :
        /\ fatal = "no"
        /\ reply' = Reply("IsUserOnline", u, 0,
                          IF IsUserOnline(clients, u) THEN "true" ELSE "false",
                          NoReply.list)
        /\ UNCHANGED <<db, lastDirect, calls, broadcast, hubVars, sessVars>>

\* A watched caller asks Hub.GetOnlineUsers; the list asked about is recorded
\* as the rows, the answer as the ids.
RequestGetOnlineUsers ==
    \E ids \in UserIdLists :
        /\ fatal = "no"
        /\ reply' = Reply("GetOnlineUsers", 0, 0, "ok",
                          Listing("ok", GetOnlineUsers(clients, ids), ids, 0))
        /\ UNCHANGED <<db, lastDirect, calls, broadcast, hubVars, sessVars>>

\* The peer closes the connection, or the transport fails.
TransportFail(cl) ==
    /\ fatal = "no"
    /\ connUp[cl]
    /\ connUp' = [connUp EXCEPT ![cl] = FALSE]
    /\ UNCHANGED <<broadcast, hubVars, cuser, typed, rp, wp, bu>>
    /\ SessionFrame

\* A Subscribe that arrives for a client wherever its readPump stands, after
\* the hub has unregistered it too.
ReadSubscribeAnytime(cl) ==
    \E c \in ConvIds :
        /\ fatal = "no"
        /\ rp[cl] # "new"
        /\ conversations' = SubscribeToConversation(cl, c, conversations)
        /\ UNCHANGED <<broadcast, clients, send, sendClosed, unregs, fatal, sessVars>>
        /\ SessionFrame

\* readPump, case "subscribe": c.Hub.Subscribe, taken by Hub.Run (case sub :=
\* <-h.subscribe).
ReadSubscribe(cl) ==
    \E c \in ConvIds :
        /\ fatal = "no"
        /\ rp[cl] = "read"
        /\ connUp[cl]
        /\ conversations' = SubscribeToConversation(cl, c, conversations)
        /\ UNCHANGED <<broadcast, clients, send, sendClosed, unregs, fatal, sessVars>>
        /\ SessionFrame

\* readPump, case "unsubscribe": c.Hub.Unsubscribe, taken by Hub.Run (case
\* sub := <-h.unsubscribe).
ReadUnsubscribe(cl) ==
    \E c \in ConvIds :
        /\ fatal = "no"
        /\ rp[cl] = "read"
        /\ connUp[cl]
        /\ conversations' = UnsubscribeFromConversation(cl, c, conversations)
        /\ UNCHANGED <<broadcast, clients, send, sendClosed, unregs, fatal, sessVars>>
        /\ SessionFrame

\* A readPump that stores the typing notice as a message of the conversation.
ReadTypingStored(cl) ==
    \E type \in {"typing", "stop_typing"}, c \in ConvIds :
        /\ fatal = "no"
        /\ rp[cl] = "read"
        /\ connUp[cl]
        /\ typed < MaxTyping
        /\ Len(broadcast) < BroadcastCap
        /\ broadcast' = Append(broadcast, Event(type, c, cuser[cl], 0))
        /\ typed' = typed + 1
        /\ db' = CreateMessage(db, c, cuser[cl], type)
        /\ UNCHANGED <<hubVars, cuser, rp, wp, connUp, bu, lastDirect, calls, reply>>

\* readPump, case "typing" and "stop_typing": Hub.BroadcastToConversation,
\* which blocks while the channel is full.
ReadTyping(cl) ==
    \E type \in {"typing", "stop_typing"}, c \in ConvIds :
        /\ fatal = "no"
        /\ rp[cl] = "read"
        /\ connUp[cl]
        /\ typed < MaxTyping
        /\ Len(broadcast) < BroadcastCap
        /\ broadcast' = Append(broadcast, Event(type, c, cuser[cl], 0))
        /\ typed' = typed + 1
        /\ UNCHANGED <<hubVars, cuser, rp, wp, connUp, bu>>
        /\ SessionFrame

\* readPump: ReadMessage returns an error, the loop breaks and the deferred
\* function calls c.Hub.Unregister, which waits for Hub.Run.
ReadError(cl) ==
    /\ fatal = "no"
    /\ rp[cl] = "read"
    /\ ~connUp[cl]
    /\ rp' = [rp EXCEPT ![cl] = "unregister"]
    /\ UNCHANGED <<broadcast, hubVars, cuser, typed, wp, connUp, bu>>
    /\ SessionFrame

\* An unregisterClient that leaves client.Send open.
LeaveSendOpen(cl) == UNCHANGED <<sendClosed, fatal>>

\* close(client.Send).  Closing a closed channel panics.
CloseSend(cl) ==
    IF sendClosed[cl]
    THEN /\ fatal' = "close of closed channel"
         /\ UNCHANGED sendClosed
    ELSE /\ sendClosed' = [sendClosed EXCEPT ![cl] = TRUE]
         /\ UNCHANGED fatal

\* unregisterClient
UnregisterClient(cl) ==
    /\ clients' = UnregisterFromClients(cl, clients)
    /\ conversations' = UnregisterFromConversations(cl, conversations)
    /\ CloseSend(cl)
    /\ unregs' = [unregs EXCEPT ![cl] = @ + 1]
    /\ bu' = MapWritten(cl, clients')

\* Hub.Run, case client := <-h.unregister, reached from readPump's deferred
\* function, which then closes the connection.
HubUnregister(cl) ==
    /\ fatal = "no"
    /\ rp[cl] = "unregister"
    /\ UnregisterClient(cl)
    /\ rp' = [rp EXCEPT ![cl] = "closed"]
    /\ connUp' = [connUp EXCEPT ![cl] = FALSE]
    /\ UNCHANGED <<broadcast, send, cuser, typed, wp>>
    /\ SessionFrame

\* writePump, case message, ok := <-c.Send with ok: the frame is written, an
\* error of the write is not looked at.
WriteMessage(cl) ==
    /\ fatal = "no"
    /\ wp[cl] = "run"
    /\ send[cl] # <<>>
    /\ send' = [send EXCEPT ![cl] = Tail(@)]
    /\ UNCHANGED <<broadcast, clients, conversations, sendClosed, unregs, fatal, sessVars>>
    /\ SessionFrame

\* writePump, case message, ok := <-c.Send with !ok: Send is closed and
\* drained; the deferred function closes the connection.
WriteClosed(cl) ==
    /\ fatal = "no"
    /\ wp[cl] = "run"
    /\ sendClosed[cl] /\ send[cl] = <<>>
    /\ wp' = [wp EXCEPT ![cl] = "closed"]
    /\ connUp' = [connUp EXCEPT ![cl] = FALSE]
    /\ UNCHANGED <<broadcast, hubVars, cuser, typed, rp, bu>>
    /\ SessionFrame

\* A writePump that unregisters too when its ping fails.
PingFailUnregisters(cl) ==
    /\ fatal = "no"
    /\ wp[cl] = "run"
    /\ ~connUp[cl]
    /\ wp' = [wp EXCEPT ![cl] = "closed"]
    /\ UnregisterClient(cl)
    /\ UNCHANGED <<broadcast, send, cuser, typed, rp, connUp>>
    /\ SessionFrame

\* writePump, case <-ticker.C: the ping fails on a broken connection and the
\* pump returns without unregistering.
PingFail(cl) ==
    /\ fatal = "no"
    /\ wp[cl] = "run"
    /\ ~connUp[cl]
    /\ wp' = [wp EXCEPT ![cl] = "closed"]
    /\ UNCHANGED <<broadcast, hubVars, cuser, typed, rp, connUp, bu>>
    /\ SessionFrame

\* BroadcastToUser, clients := h.clients[userID] under the read lock.  A nil
\* inner map ends the call at once.
BroadcastToUserBegin ==
    \E u \in Users :
        /\ fatal = "no"
        /\ bu.pc = "idle"
        /\ clients[u] # {}
        /\ bu' = [pc |-> "range", user |-> u, seen |-> {}, cur |-> 1,
                  changed |-> {}, attached |-> TRUE]
        /\ UNCHANGED <<broadcast, hubVars, cuser, typed, rp, wp, connUp>>
        /\ SessionFrame

\* The entries the range can still produce: those of the inner map, and those
\* the hub wrote or deleted since the range began.
RangeCandidates ==
    ((IF bu.attached THEN clients[bu.user] ELSE {}) \cup bu.changed) \ bu.seen

\* BroadcastToUser, for client := range clients: the next entry.  An entry
\* written during the range may be skipped.
BroadcastToUserRange ==
    /\ fatal = "no"
    /\ bu.pc = "range"
    /\ \/ \E cl \in RangeCandidates :
             \/ bu' = [bu EXCEPT !.pc = "send", !.cur = cl, !.seen = @ \cup {cl}]
             \/ /\ cl \in bu.changed
                /\ bu' = [bu EXCEPT !.seen = @ \cup {cl}]
       \/ /\ RangeCandidates = {}
          /\ bu' = [bu EXCEPT !.pc = "idle", !.seen = {}, !.cur = 1, !.changed = {}]
    /\ UNCHANGED <<broadcast, hubVars, cuser, typed, rp, wp, connUp>>
    /\ SessionFrame

\* BroadcastToUser, select { case client.Send <- data: default: } in the
\* caller's goroutine.
BroadcastToUserSend ==
    /\ fatal = "no"
    /\ bu.pc = "send"
    /\ Deliver({bu.cur}, Event("online_status", 0, bu.user, 0))
    /\ bu' = [bu EXCEPT !.pc = "range", !.cur = 1]
    /\ UNCHANGED <<broadcast, clients, conversations, sendClosed, unregs, cuser, typed, rp, wp, connUp>>
    /\ SessionFrame

\* The runtime detects the hub's map write during the range.
BroadcastToUserMapFault ==
    /\ fatal = "no"
    /\ bu.pc # "idle"
    /\ bu.changed # {}
    /\ fatal' = "concurrent map iteration and map write"
    /\ UNCHANGED <<broadcast, clients, conversations, send, sendClosed, unregs, sessVars>>
    /\ SessionFrame

\* The tables after user 1 has created a group conversation with every user
\* and user 2 has asked for the direct conversation with user 1.
SeedDb ==
    LET d1 == CreateWithParticipants(EmptyDb, 1, "group", Users).db
    IN  (CHOOSE o \in GetOrCreateDirectConversation(d1, 2, 1) : TRUE).db

\* NewHub, and no Client made yet.
InitHub ==
    /\ broadcast = <<>>
    /\ clients = [u \in Users |-> {}]
    /\ conversations = [c \in ConvIds |-> {}]
    /\ send = [cl \in ClientIds |-> <<>>]
    /\ sendClosed = [cl \in ClientIds |-> FALSE]
    /\ unregs = [cl \in ClientIds |-> 0]
    /\ fatal = "no"
    /\ cuser = [cl \in ClientIds |-> 1]
    /\ rp = [cl \in ClientIds |-> "new"]
    /\ wp = [cl \in ClientIds |-> "new"]
    /\ connUp = [cl \in ClientIds |-> FALSE]
    /\ typed = 0
    /\ reply = NoReply
    /\ bu = [pc |-> "idle", user |-> 1, seen |-> {}, cur |-> 1, changed |-> {}, attached |-> TRUE]

\* ------------------------------- Spec: the Service over existing conversations

Init ==
    /\ db = SeedDb
    /\ lastDirect = NoCall
    /\ calls = [k \in CallIds |-> Idle]
    /\ InitHub

Next ==
    \/ CallLeaveConversation
    \/ CallSendMessage
    \/ CallMarkAsRead
    \/ HubBroadcast

Spec == Init /\ [][Next]_vars

\* ------------------- SpecConv: the conversation calls, from the empty tables

InitConv ==
    /\ db = EmptyDb
    /\ lastDirect = NoCall
    /\ calls = [k \in CallIds |-> Idle]
    /\ InitHub

NextConv ==
    \/ CallCreateConversation
    \/ CallGetOrCreateDirect
    \/ CallLeaveConversation

SpecConv == InitConv /\ [][NextConv]_vars

\* ------- SpecDirect: only direct conversations are asked for, and may be left

NextDirect ==
    \/ CallGetOrCreateDirect
    \/ CallLeaveConversation

SpecDirect == InitConv /\ [][NextDirect]_vars

\* ---------- SpecMsg: concurrent message calls over the existing conversations

NextMsg ==
    \/ \E k \in CallIds : SendMessageBegin(k)
    \/ \E k \in CallIds : SendMessageInsert(k)
    \/ \E k \in CallIds : SendMessagePointer(k)
    \/ \E k \in CallIds : SendMessageUnread(k)
    \/ \E k \in CallIds : SendMessagePublish(k)
    \/ HubBroadcast

SpecMsg == Init /\ [][NextMsg]_vars

\* ------------- SpecHub: the sessions and the commands they give to Hub.Run

NextHub ==
    \/ \E cl \in ClientIds : HandleWebSocket(cl)
    \/ \E cl \in ClientIds : TransportFail(cl)
    \/ \E cl \in ClientIds : ReadSubscribe(cl)
    \/ \E cl \in ClientIds : ReadUnsubscribe(cl)
    \/ \E cl \in ClientIds : ReadTyping(cl)
    \/ \E cl \in ClientIds : ReadError(cl)
    \/ \E cl \in ClientIds : HubUnregister(cl)
    \/ \E cl \in ClientIds : WriteMessage(cl)
    \/ \E cl \in ClientIds : WriteClosed(cl)
    \/ \E cl \in ClientIds : PingFail(cl)
    \/ HubBroadcast

SpecHub == Init /\ [][NextHub]_vars

\* ---------- SpecUser: the sessions, and a goroutine calling BroadcastToUser

NextUser ==
    \/ \E cl \in ClientIds : HandleWebSocket(cl)
    \/ \E cl \in ClientIds : TransportFail(cl)
    \/ \E cl \in ClientIds : ReadSubscribe(cl)
    \/ \E cl \in ClientIds : ReadUnsubscribe(cl)
    \/ \E cl \in ClientIds : ReadError(cl)
    \/ \E cl \in ClientIds : HubUnregister(cl)
    \/ \E cl \in ClientIds : WriteMessage(cl)
    \/ \E cl \in ClientIds : WriteClosed(cl)
    \/ \E cl \in ClientIds : PingFail(cl)
    \/ BroadcastToUserBegin
    \/ BroadcastToUserRange
    \/ BroadcastToUserSend
    \/ BroadcastToUserMapFault

SpecUser == Init /\ [][NextUser]_vars

\* ------------- SpecDeliver: the sessions, and SendMessage calls of the Service

NextDeliver ==
    \/ \E cl \in ClientIds : HandleWebSocket(cl)
    \/ \E cl \in ClientIds : TransportFail(cl)
    \/ \E cl \in ClientIds : ReadSubscribe(cl)
    \/ \E cl \in ClientIds : ReadUnsubscribe(cl)
    \/ \E cl \in ClientIds : ReadError(cl)
    \/ \E cl \in ClientIds : HubUnregister(cl)
    \/ \E cl \in ClientIds : WriteMessage(cl)
    \/ \E cl \in ClientIds : WriteClosed(cl)
    \/ \E cl \in ClientIds : PingFail(cl)
    \/ HubBroadcast
    \/ CallSendMessage

SpecDeliver == Init /\ [][NextDeliver]_vars

\* ------- SpecDrop: sessions that stay connected, with typing frames and
\* SendMessage calls as the sources of events

NextDrop ==
    \/ \E cl \in ClientIds : HandleWebSocket(cl)
    \/ \E cl \in ClientIds : ReadSubscribe(cl)
    \/ \E cl \in ClientIds : ReadTyping(cl)
    \/ \E cl \in ClientIds : WriteMessage(cl)
    \/ HubBroadcast
    \/ CallSendMessage

SpecDrop == Init /\ [][NextDrop]_vars

\* ------- SpecSubscribe: connected sessions subscribe and unsubscribe while
\* users leave their conversations

NextSubscribe ==
    \/ \E cl \in ClientIds : HandleWebSocket(cl)
    \/ \E cl \in ClientIds : ReadSubscribe(cl)
    \/ \E cl \in ClientIds : ReadUnsubscribe(cl)
    \/ CallLeaveConversation

SpecSubscribe == Init /\ [][NextSubscribe]_vars

\* ------- SpecGate: a watched caller's requests on a group of both users and a
\* group user 1 is alone in, while users leave

SeedGate ==
    LET d1 == CreateWithParticipants(EmptyDb, 1, "group", Users).db
    IN  CreateWithParticipants(d1, 1, "group", {1}).db

InitGate ==
    /\ db = SeedGate
    /\ lastDirect = NoCall
    /\ calls = [k \in CallIds |-> Idle]
    /\ InitHub

NextGate ==
    \/ CallLeaveConversation
    \/ RequestSendMessage
    \/ RequestEditMessage
    \/ RequestDeleteMessage
    \/ HubBroadcast

SpecGate == InitGate /\ [][NextGate]_vars

\* ------- SpecPublish: every call of the Service that hands an event to the hub

NextPublish ==
    \/ CallLeaveConversation
    \/ CallSendMessage
    \/ CallEditMessage
    \/ CallDeleteMessage
    \/ CallMarkAsRead
    \/ HubBroadcast

SpecPublish == InitGate /\ [][NextPublish]_vars

\* ------- SpecRead: the watched caller reads conversations and their messages
\* while users leave, send and delete

NextRead ==
    \/ CallLeaveConversation
    \/ CallSendMessage
    \/ CallDeleteMessage
    \/ RequestGetConversation
    \/ RequestGetMessages
    \/ HubBroadcast

SpecRead == InitGate /\ [][NextRead]_vars

\* ------- SpecFault: the Service on a Store that may fail one statement of a
\* call; the events handed over stay in the hub's channel

NextFault ==
    \/ FailingCreateConversation
    \/ FailingGetOrCreateDirect
    \/ FailingSendMessage

SpecFault == InitConv /\ [][NextFault]_vars

\* ------- SpecList: the watched caller lists the conversations of a user while
\* users send, leave and archive

NextList ==
    \/ CallSendMessage
    \/ CallLeaveConversation
    \/ CallUpdateParticipant
    \/ RequestGetUserConversations
    \/ HubBroadcast

SpecList == Init /\ [][NextList]_vars

\* ------- SpecRegister: sessions whose Client is handed to Hub.Register again

NextRegister ==
    \/ \E cl \in ClientIds : HandleWebSocket(cl)
    \/ \E cl \in ClientIds : RequestRegister(cl)
    \/ \E cl \in ClientIds : TransportFail(cl)
    \/ \E cl \in ClientIds : ReadSubscribe(cl)
    \/ \E cl \in ClientIds : ReadError(cl)
    \/ \E cl \in ClientIds : HubUnregister(cl)

SpecRegister == Init /\ [][NextRegister]_vars

\* ------- SpecPresence: the watched caller asks who is online while sessions
\* come and go

NextPresence ==
    \/ \E cl \in ClientIds : HandleWebSocket(cl)
    \/ \E cl \in ClientIds : TransportFail(cl)
    \/ \E cl \in ClientIds : ReadError(cl)
    \/ \E cl \in ClientIds : HubUnregister(cl)
    \/ RequestIsUserOnline
    \/ RequestGetOnlineUsers

SpecPresence == Init /\ [][NextPresence]_vars

\* ------- SpecOrder: concurrent SendMessage calls, and sessions that subscribe
\* and leave their events in Send

NextOrder ==
    \/ \E k \in CallIds : SendMessageBegin(k)
    \/ \E k \in CallIds : SendMessageInsert(k)
    \/ \E k \in CallIds : SendMessagePointer(k)
    \/ \E k \in CallIds : SendMessageUnread(k)
    \/ \E k \in CallIds : SendMessagePublish(k)
    \/ \E cl \in ClientIds : HandleWebSocket(cl)
    \/ \E cl \in ClientIds : ReadSubscribe(cl)
    \/ HubBroadcast

SpecOrder == Init /\ [][NextOrder]_vars

\* ------- SpecLive: the goroutines that give commands to Hub.Run, with
\* writePumps that may stall; Hub.Run and every goroutine that can run do

NextLive ==
    \/ \E k \in CallIds : SendMessageStore(k)
    \/ \E k \in CallIds : SendMessagePublish(k)
    \/ \E cl \in LiveIds : HandleWebSocket(cl)
    \/ \E cl \in LiveIds : TransportFail(cl)
    \/ \E cl \in LiveIds : ReadSubscribe(cl)
    \/ \E cl \in LiveIds : ReadTyping(cl)
    \/ \E cl \in LiveIds : ReadError(cl)
    \/ \E cl \in LiveIds : HubUnregister(cl)
    \/ \E cl \in LiveIds : WriteMessage(cl)
    \/ HubBroadcast

SpecLive ==
    /\ Init
    /\ [][NextLive]_vars
    /\ WF_vars(HubBroadcast)
    /\ \A k \in CallIds : WF_vars(SendMessagePublish(k))
    /\ \A cl \in LiveIds :
          /\ WF_vars(ReadError(cl))
          /\ WF_vars(HubUnregister(cl))

\* ------- SpecSession: the life of each session from HandleWebSocket to the
\* end of its two pumps, frames left aside; every goroutine that can run does

NextSession ==
    \/ \E cl \in ClientIds : HandleWebSocket(cl)
    \/ \E cl \in ClientIds : TransportFail(cl)
    \/ \E cl \in ClientIds : ReadError(cl)
    \/ \E cl \in ClientIds : HubUnregister(cl)
    \/ \E cl \in ClientIds : WriteClosed(cl)
    \/ \E cl \in ClientIds : PingFail(cl)

SpecSession ==
    /\ Init
    /\ [][NextSession]_vars
    /\ \A cl \in ClientIds :
          /\ WF_vars(ReadError(cl))
          /\ WF_vars(HubUnregister(cl))
          /\ WF_vars(WriteClosed(cl))

\* --------------------------------------------------------------- claims

\* C1: a createMessage/sendMessage of message m by sender s in conversation c
\* that completes with no other operation in between leaves the unread counter
\* of every active participant of c other than s exactly 1 greater than before,
\* and c's last-message pointer equal to m.
C1_SendMessageEffect ==
    [][Len(db'.msgs) = Len(db.msgs) + 1 =>
        LET m == Len(db'.msgs)
            c == db'.msgs[m].conv
            s == db'.msgs[m].sender
        IN  /\ \A p \in ActiveParticipants(db, c) \ {s} :
                  db'.parts[<<c, p>>].unread = db.parts[<<c, p>>].unread + 1
            /\ db'.convs[c].lastMessageId = m]_vars

\* Two messages have been sent to one conversation: the second is its last
\* message and an active participant other than its sender has counted both.
C1_Witness ==
    \E c \in ConvIds, p \in Users :
        /\ Len(db.msgs) = 2
        /\ db.msgs[1].conv = c /\ db.msgs[2].conv = c
        /\ db.convs[c].lastMessageId = 2
        /\ p \notin {db.msgs[1].sender, db.msgs[2].sender}
        /\ IsParticipant(db, c, p)
        /\ db.parts[<<c, p>>].unread = 2

\* The messages of conversation c that are committed: their INSERT has run.
MessagesOf(c) == {m \in 1..Len(db.msgs) : db.msgs[m].conv = c}

Newest(ms) == CHOOSE m \in ms : \A n \in ms : n <= m

\* C2: in every state a reader can observe, during concurrent createMessage
\* calls and after them, a conversation's last-message pointer names the most
\* recently created committed message of the conversation.
C2_LastMessageNeverStale ==
    \A c \in 1..Len(db.convs) :
        MessagesOf(c) # {} => db.convs[c].lastMessageId = Newest(MessagesOf(c))

\* C2, the states after every call has returned: the pointer names the newest
\* message once no createMessage is in progress.
C2_FinalPointerIsNewest ==
    (\A k \in CallIds : calls[k] = Idle) => C2_LastMessageNeverStale

\* The CreateMessage that inserted message m has run its unread increment.
Counted(m) ==
    \A k \in CallIds :
        ~(calls[k].op = "SendMessage" /\ calls[k].m = m /\ calls[k].pc \in {"pointer", "unread"})

\* C3: when createMessage calls by senders other than participant p run
\* concurrently in a conversation, and p marks nothing read, p's unread counter
\* is the number of those calls that have run their increment: with N calls
\* finished it is N, no increment is lost.
C3_NoLostIncrement ==
    \A c \in ConvIds, p \in Users :
        (HasRow(db, c, p) /\ db.parts[<<c, p>>].lastRead = 0)
        => db.parts[<<c, p>>].unread =
              Cardinality({m \in MessagesOf(c) : db.msgs[m].sender # p /\ Counted(m)})

\* Two calls overlap in one conversation: the one that inserted first has not
\* run its increment yet, the one that inserted second has.
C3_Witness ==
    \E k, j \in CallIds, p \in Users :
        /\ calls[k].op = "SendMessage" /\ calls[k].pc = "unread"
        /\ calls[j].op = "SendMessage" /\ calls[j].pc = "publish"
        /\ calls[k].x = calls[j].x
        /\ calls[k].m < calls[j].m
        /\ p \notin {calls[k].u, calls[j].u}
        /\ IsParticipant(db, calls[k].x, p)
        /\ db.parts[<<calls[k].x, p>>].unread = 1

\* C4: in every reachable state, whatever createConversation,
\* getOrCreateDirectConversation and leaveConversation calls came before, at
\* most one direct conversation exists for any unordered pair of users: no two
\* direct conversations have the same two active participants.
C4_UniqueDirectPair ==
    \A c1, c2 \in 1..Len(db.convs) :
        (/\ c1 # c2
         /\ db.convs[c1].type = "direct"
         /\ db.convs[c2].type = "direct"
         /\ Cardinality(ActiveParticipants(db, c1)) = 2)
        => ActiveParticipants(db, c1) # ActiveParticipants(db, c2)

\* C5: for two users a and b, getOrCreateDirect(a, b) followed at once by
\* getOrCreateDirect(a, b) or getOrCreateDirect(b, a) returns the same
\* conversation both times.
C5_SameConversationTwice ==
    [][(/\ lastDirect.err = "ok"
        /\ lastDirect.u # lastDirect.other
        /\ lastDirect' # NoCall
        /\ {lastDirect'.u, lastDirect'.other} = {lastDirect.u, lastDirect.other})
       => (lastDirect'.err = "ok" /\ lastDirect'.val = lastDirect.val)]_vars

\* C6: under every interleaving of register, unregister, subscribe,
\* unsubscribe and the broadcasts, BroadcastToUser included, no event is sent
\* on a Send channel that unregister has closed.
C6_NoSendOnClosedQueue == fatal # "send on closed channel"

\* The event the hub takes from its broadcast channel in this step, if it is
\* such a step.
BroadcastStep == broadcast # <<>> /\ broadcast' = Tail(broadcast)

\* C7: once unregisterClient has run for a connection, the connection is in no
\* conversation's subscriber set and not in the user index, and nothing is
\* added to its Send any more, whatever follows.
C7_UnregisteredGetsNothing ==
    [][\A cl \in ClientIds :
          unregs'[cl] >= 1 =>
             /\ \A u \in Users : cl \notin clients'[u]
             /\ \A c \in ConvIds : cl \notin conversations'[c]
             /\ \/ send'[cl] = send[cl]
                \/ send[cl] # <<>> /\ send'[cl] = Tail(send[cl])]_vars

\* An unregistered connection still holds an event of a conversation for which
\* the hub is about to process a further broadcast to a live subscriber.
C7_Witness ==
    \E cl, other \in ClientIds :
        /\ unregs[cl] = 1
        /\ send[cl] # <<>>
        /\ broadcast # <<>>
        /\ Head(broadcast).conv = Head(send[cl]).conv
        /\ other # cl
        /\ other \in conversations[Head(broadcast).conv]

\* C8: for every session unregisterClient runs exactly once, and Send is
\* closed exactly once, whether readPump or writePump ends first: never twice,
\* and once the connection is down it does run.
C8_UnregisteredExactlyOnce ==
    /\ [](\A cl \in ClientIds :
             /\ unregs[cl] <= 1
             /\ sendClosed[cl] <=> unregs[cl] = 1
             /\ rp[cl] = "closed" => unregs[cl] = 1
             /\ fatal = "no")
    /\ \A cl \in ClientIds :
          (rp[cl] # "new" /\ ~connUp[cl]) ~> (unregs[cl] = 1)

\* One session whose writePump ended first and whose readPump has not yet
\* unregistered, another whose readPump ended first and has.
C8_Witness ==
    \E cl, other \in ClientIds :
        /\ wp[cl] = "closed" /\ rp[cl] = "read" /\ unregs[cl] = 0
        /\ rp[other] = "closed" /\ wp[other] = "run" /\ unregs[other] = 1

\* C9: when the hub processes a broadcast, a subscriber whose Send is full
\* keeps its contents and no panic is raised, every subscriber with room gets
\* the event in the same step, the step completes whatever the buffers hold
\* (the hub is not held up), and no Send holds more than its capacity.
C9_FullQueueDropsItsCopy ==
    [][/\ \A cl \in ClientIds : Len(send'[cl]) <= SendCap
       /\ BroadcastStep =>
             /\ fatal' = fatal
             /\ \A cl \in conversations[Head(broadcast).conv] :
                   IF Len(send[cl]) = SendCap
                   THEN send'[cl] = send[cl]
                   ELSE send'[cl] = Append(send[cl], Head(broadcast))]_vars

\* The events a Send buffer holds, as a set.
Held(q) == {q[i] : i \in 1..Len(q)}

\* Two subscribers of one conversation: the Send of one is full of events of
\* the conversation, the other has since received an event of it that the
\* first does not hold.
C9_Witness ==
    \E cl, other \in ClientIds, c \in ConvIds :
        /\ {cl, other} \subseteq conversations[c]
        /\ Len(send[cl]) = SendCap
        /\ \A e \in Held(send[cl]) : e.conv = c
        /\ send[other] # <<>>
        /\ send[other][Len(send[other])].conv = c
        /\ send[other][Len(send[other])] \notin Held(send[cl])
        /\ broadcast = <<>>

\* C10: a client subscribed to conversation c whose Send has room gets exactly
\* one copy of an event the hub processes for c; a successful SendMessage
\* hands the hub a new_message event that carries the message it stored.
C10_SubscriberGetsOneCopy ==
    [][/\ BroadcastStep =>
             \A cl \in conversations[Head(broadcast).conv] :
                 Len(send[cl]) < SendCap => send'[cl] = Append(send[cl], Head(broadcast))
       /\ Len(db'.msgs) = Len(db.msgs) + 1 =>
             LET m == Len(db'.msgs)
             IN  broadcast' = Append(broadcast,
                     Event("new_message", db'.msgs[m].conv, db'.msgs[m].sender, m))]_vars

\* A subscriber of another user holds the new_message event of a stored
\* message of its conversation.
C10_Witness ==
    \E cl \in ClientIds, c \in ConvIds, m \in 1..Len(db.msgs) :
        /\ cl \in conversations[c]
        /\ send[cl] # <<>>
        /\ Head(send[cl]) = Event("new_message", c, db.msgs[m].sender, m)
        /\ db.msgs[m].conv = c
        /\ cuser[cl] # db.msgs[m].sender

\* C11: a SendMessage whose message is stored returns it to its caller
\* whatever the hub holds: handing the event to the hub never makes the caller
\* wait, so a call that has stored its message finds room in the hub's
\* broadcast channel at once.
C11_PublishNeverWaits ==
    \A k \in CallIds :
        (calls[k].op = "SendMessage" /\ calls[k].pc = "publish")
        => Len(broadcast) < BroadcastCap

\* C12: the events writePump takes from a connection's Send come out in the
\* order in which the hub put them there: Send only ever grows at its end, by
\* the event the hub is broadcasting, and shrinks at its front, by the event
\* writePump takes; so the new_message events it holds are in the order of
\* their messages, none twice.
C12_SendKeepsBroadcastOrder ==
    [][\A cl \in ClientIds :
          /\ \/ send'[cl] = send[cl]
             \/ BroadcastStep /\ send'[cl] = Append(send[cl], Head(broadcast))
             \/ send[cl] # <<>> /\ send'[cl] = Tail(send[cl])
          /\ \A i, j \in 1..Len(send'[cl]) :
                 i < j => send'[cl][i].msg < send'[cl][j].msg]_vars

\* A connection whose writePump runs holds the events of two messages, the
\* older one in front.
C12_Witness ==
    \E cl \in ClientIds :
        /\ wp[cl] = "run"
        /\ Len(send[cl]) = 2
        /\ send[cl][1].type = "new_message" /\ send[cl][2].type = "new_message"
        /\ send[cl][1].msg = 1 /\ send[cl][2].msg = 2

\* The event a call has just handed to the hub is of the given type.
Published(type) ==
    /\ Len(broadcast') = Len(broadcast) + 1
    /\ broadcast'[Len(broadcast')].type = type

\* C13: MarkAsRead by user u in conversation c with message m sets the
\* unread count of u's row of c to 0 and its read cursor to m, and changes no
\* other participant row (another participant's, or u's in another
\* conversation), no conversation and no message.
C13_MarkAsReadResetsOneRow ==
    [][Published("read") =>
          LET e == broadcast'[Len(broadcast')]
          IN  /\ DOMAIN db'.parts = DOMAIN db.parts
              /\ \A k \in DOMAIN db.parts :
                     db'.parts[k] =
                         IF k = <<e.conv, e.user>>
                         THEN [db.parts[k] EXCEPT !.unread = 0, !.lastRead = e.msg]
                         ELSE db.parts[k]
              /\ db'.convs = db.convs
              /\ db'.msgs = db.msgs]_vars

\* A participant has read up to the newest message of a conversation and has
\* nothing unread there, while another participant of it still has.
C13_Witness ==
    \E c \in ConvIds, u, other \in Users :
        /\ HasRow(db, c, u) /\ HasRow(db, c, other) /\ u # other
        /\ db.parts[<<c, u>>].lastRead = Len(db.msgs)
        /\ db.parts[<<c, u>>].lastRead >= 1
        /\ db.parts[<<c, u>>].unread = 0
        /\ db.parts[<<c, other>>].unread >= 1

\* C14: whatever CreateConversation, GetOrCreateDirectConversation and
\* LeaveConversation calls have completed, every conversation of type direct
\* has exactly two active participants.
C14_DirectHasTwoActive ==
    \A c \in 1..Len(db.convs) :
        db.convs[c].type = "direct" => Cardinality(ActiveParticipants(db, c)) = 2

\* C15: a subscribe frame of a client adds its connection to a
\* conversation's subscriber set only if the connection's user is an active
\* participant of the conversation at that time.
C15_SubscribeOnlyParticipants ==
    [][\A cl \in ClientIds, c \in ConvIds :
          (cl \notin conversations[c] /\ cl \in conversations'[c])
          => IsParticipant(db, c, cuser[cl])]_vars

\* C16: when DeleteMessage marks message m deleted, GetMessages of m's
\* conversation returns to every active participant the same messages in the
\* same order as before and reports the same total, and the row it returns for
\* m has NULL content and is_deleted set.
C16_DeletedStaysListed ==
    [][\A m \in 1..Len(db.msgs) :
          (~db.msgs[m].deleted /\ db'.msgs[m].deleted) =>
             \A u \in ActiveParticipants(db, db.msgs[m].conv) :
                 LET before == GetMessages(db, db.msgs[m].conv, u, 0, 0)
                     after  == GetMessages(db', db.msgs[m].conv, u, 0, 0)
                 IN  /\ after.err = "ok"
                     /\ after.ids = before.ids
                     /\ after.total = before.total
                     /\ \A i \in 1..Len(after.ids) :
                            after.ids[i] = m =>
                               /\ after.rows[i].content = Null
                               /\ after.rows[i].deleted]_vars

\* The outcome of a call that was refused: the tables as they were, the error,
\* and no event.
Refused(d, e) == Outcome(d, Err(e), <<>>)

\* C17: EditMessage and DeleteMessage called by a user who is not the sender
\* of the message fail with Unauthorized, leave the message (content, edited
\* flag, deleted flag) and the rest of the tables as they were, and hand no
\* event to the hub.
C17_OnlySenderEditsOrDeletes ==
    [][/\ \A u \in Users, m \in 1..Len(db.msgs) :
             db.msgs[m].sender # u =>
                /\ \A content \in Edits :
                       EditMessage(db, u, m, content) = Refused(db, "Unauthorized")
                /\ ServiceDeleteMessage(db, u, m) = Refused(db, "Unauthorized")
       /\ (/\ reply' # reply
           /\ reply'.op \in {"EditMessage", "DeleteMessage"}
           /\ reply'.x \in 1..Len(db.msgs)
           /\ db.msgs[reply'.x].sender # reply'.u)
          => (/\ reply'.err = "Unauthorized"
              /\ db' = db
              /\ broadcast' = broadcast)]_vars

\* The watched caller asked to delete another user's message and was refused:
\* the message still has the content it was sent with.
C17_Witness ==
    /\ reply.op = "DeleteMessage"
    /\ reply.err = "Unauthorized"
    /\ reply.x \in 1..Len(db.msgs)
    /\ db.msgs[reply.x].sender # reply.u
    /\ db.msgs[reply.x].content \in Contents
    /\ ~db.msgs[reply.x].edited /\ ~db.msgs[reply.x].deleted

\* User u has no participant row in conversation c, or one with left_at set.
NotActive(d, c, u) == <<c, u>> \notin DOMAIN d.parts \/ d.parts[<<c, u>>].left

\* C18: SendMessage by a user who never joined the conversation or has left
\* it fails with NotParticipant, stores no message, changes no unread count
\* and no last-message pointer, and hands no event to the hub.
C18_SendNeedsActiveParticipant ==
    [][/\ \A u \in Users, c \in ConvIds, content \in Contents :
             NotActive(db, c, u) =>
                SendMessage(db, u, c, content) = Refused(db, "NotParticipant")
       /\ (/\ reply' # reply
           /\ reply'.op = "SendMessage"
           /\ NotActive(db, reply'.x, reply'.u))
          => (/\ reply'.err = "NotParticipant"
              /\ db' = db
              /\ broadcast' = broadcast)]_vars

\* The watched caller has left a conversation the other user is still in,
\* then sent to it and was refused; nothing was stored.
C18_Witness ==
    /\ reply.op = "SendMessage"
    /\ reply.err = "NotParticipant"
    /\ HasRow(db, reply.x, reply.u)
    /\ db.parts[<<reply.x, reply.u>>].left
    /\ ActiveParticipants(db, reply.x) # {}
    /\ db.msgs = <<>>

\* C19: GetConversation and GetMessages called by a user who never joined the
\* conversation or has left it fail with NotParticipant and return no
\* conversation, no message and no total.
C19_ReadsNeedActiveParticipant ==
    [][/\ \A u \in Users, c \in ConvIds :
             NotActive(db, c, u) =>
                /\ GetConversation(db, c, u) = Err("NotParticipant")
                /\ \A limit \in {0, 1}, offset \in {0, 1} :
                       GetMessages(db, c, u, limit, offset)
                           = Listing("NotParticipant", <<>>, <<>>, 0)
       /\ (/\ reply' # reply
           /\ reply'.op \in {"GetConversation", "GetMessages"}
           /\ NotActive(db, reply'.x, reply'.u))
          => (/\ reply'.err = "NotParticipant"
              /\ reply'.list.ids = <<>>
              /\ reply'.list.rows = <<>>
              /\ reply'.list.total = 0)]_vars

\* The watched caller has left a conversation that holds a message, then
\* asked for its messages and got NotParticipant and no row.
C19_Witness ==
    /\ reply.op = "GetMessages"
    /\ reply.err = "NotParticipant"
    /\ reply.list.ids = <<>>
    /\ HasRow(db, reply.x, reply.u)
    /\ db.parts[<<reply.x, reply.u>>].left
    /\ Selected(db, reply.x) # {}

\* C20: every new_message, message_edited, message_deleted and read event
\* the Service hands to the hub carries a change the tables hold when it is
\* handed over: the message stored, the message marked edited, the message
\* marked deleted, the participant row with its cursor set and nothing unread.
\* A call that stored nothing hands over no event.
C20_EventsCarryCommittedChanges ==
    [][Len(broadcast') = Len(broadcast) + 1 =>
          LET e == broadcast'[Len(broadcast')]
          IN  /\ e.type = "new_message" =>
                    /\ e.msg = Len(db.msgs) + 1 /\ e.msg = Len(db'.msgs)
                    /\ db'.msgs[e.msg].conv = e.conv
                    /\ db'.msgs[e.msg].sender = e.user
              /\ e.type = "message_edited" =>
                    /\ e.msg \in 1..Len(db'.msgs)
                    /\ db'.msgs[e.msg].conv = e.conv
                    /\ db'.msgs[e.msg].edited
              /\ e.type = "message_deleted" =>
                    /\ e.msg \in 1..Len(db'.msgs)
                    /\ db'.msgs[e.msg].conv = e.conv
                    /\ db'.msgs[e.msg].deleted
              /\ e.type = "read" =>
                    /\ HasRow(db', e.conv, e.user)
                    /\ db'.parts[<<e.conv, e.user>>].lastRead = e.msg
                    /\ db'.parts[<<e.conv, e.user>>].unread = 0]_vars

\* C21: when a statement of the Store run by CreateConversation,
\* GetOrCreateDirectConversation or SendMessage fails (the lookup of the direct
\* conversation, an AddParticipant, the INSERT of the message, the UPDATE of
\* the last-message pointer, the UPDATE of the unread counts), the call
\* returns an error to its caller.
C21_StoreErrorsReachCaller ==
    [][(reply' # reply /\ reply'.op # "none" /\ reply'.failed) => reply'.err # "ok"]_vars

\* C22: in every step the unread count of a participant row stays as it is,
\* or grows by exactly one in a step that stores a message of another sender
\* in the row's conversation, or becomes zero in a step in which the row's
\* user marks the row's conversation read; every such message does count, the
\* row is never removed and the count is never negative.
C22_UnreadChangesOnlyBySendAndRead ==
    [][\A k \in DOMAIN db.parts :
          LET sent == /\ Len(db'.msgs) = Len(db.msgs) + 1
                      /\ db'.msgs[Len(db'.msgs)].conv = k[1]
                      /\ db'.msgs[Len(db'.msgs)].sender # k[2]
              read == /\ Published("read")
                      /\ broadcast'[Len(broadcast')].conv = k[1]
                      /\ broadcast'[Len(broadcast')].user = k[2]
          IN  /\ k \in DOMAIN db'.parts
              /\ db'.parts[k].unread >= 0
              /\ sent => db'.parts[k].unread = db.parts[k].unread + 1
              /\ read => db'.parts[k].unread = 0
              /\ ~sent /\ ~read => db'.parts[k].unread = db.parts[k].unread]_vars

\* A participant has read the first message of a conversation, and the second,
\* sent by another user after that, is counted as its only unread one.
C22_Witness ==
    \E k \in DOMAIN db.parts :
        /\ Len(db.msgs) = 2
        /\ db.msgs[2].conv = k[1] /\ db.msgs[2].sender # k[2]
        /\ db.parts[k].lastRead = 1
        /\ db.parts[k].unread = 1

\* C23: once the transport of a connection has failed or was closed (its
\* readPump gets a read error, its writePump a failed ping), the connection is
\* eventually unregistered, its Send is closed and its writePump has returned,
\* as long as Hub.Run keeps taking commands.
C23_FailedConnectionIsCleanedUp ==
    \A cl \in ClientIds :
        (rp[cl] # "new" /\ ~connUp[cl])
            ~> (/\ unregs[cl] >= 1
                /\ cl \notin UNION {clients[u] : u \in Users}
                /\ sendClosed[cl]
                /\ rp[cl] = "closed"
                /\ wp[cl] = "closed")

\* Both pumps of a connection whose transport failed have returned, the hub
\* has unregistered it and closed its Send, while another connection is live.
C23_Witness ==
    \E cl, other \in ClientIds :
        /\ rp[cl] = "closed" /\ wp[cl] = "closed"
        /\ unregs[cl] = 1 /\ sendClosed[cl]
        /\ connUp[other] /\ rp[other] = "read" /\ wp[other] = "run"

\* C24: when the hub unregisters a connection whose transport failed, every
\* other connection keeps its place in the user index, its subscriptions and
\* the events buffered in its Send, and its Send stays as open as it was.
C24_UnregisterLeavesOthersAlone ==
    [][\A cl \in ClientIds :
          unregs'[cl] = unregs[cl] + 1 =>
             /\ fatal' = "no"
             /\ \A other \in ClientIds \ {cl} :
                    /\ \A u \in Users : other \in clients'[u] <=> other \in clients[u]
                    /\ \A c \in ConvIds :
                           other \in conversations'[c] <=> other \in conversations[c]
                    /\ send'[other] = send[other]
                    /\ sendClosed'[other] = sendClosed[other]]_vars

\* A connection has been unregistered; another connection of the same user is
\* still in the user index, subscribed, open, and holds an event.
C24_Witness ==
    \E cl, other \in ClientIds, c \in ConvIds :
        /\ cl # other
        /\ unregs[cl] = 1 /\ sendClosed[cl]
        /\ cuser[other] = cuser[cl]
        /\ other \in clients[cuser[cl]]
        /\ other \in conversations[c]
        /\ send[other] # <<>>
        /\ ~sendClosed[other]

\* C25: EditMessage changes the content and the edited flag of the message and
\* nothing else: the message keeps its id, conversation, sender and created_at,
\* no row is added or removed, every other row is as it was, and the messages
\* of every conversation are in the same order as before.
C25_EditKeepsIdentityAndOrder ==
    [][Published("message_edited") =>
          LET m == broadcast'[Len(broadcast')].msg
          IN  /\ Len(db'.msgs) = Len(db.msgs)
              /\ m \in 1..Len(db.msgs)
              /\ db'.msgs[m] = [db.msgs[m] EXCEPT !.content = db'.msgs[m].content,
                                                  !.edited = TRUE]
              /\ db'.msgs[m].content \in Edits
              /\ \A i \in 1..Len(db.msgs) : i # m => db'.msgs[i] = db.msgs[i]
              /\ db'.convs = db.convs
              /\ db'.parts = db.parts
              /\ \A c \in ConvIds :
                     NewestFirst(db', Selected(db', c)) = NewestFirst(db, Selected(db, c))]_vars

\* The older of two messages of a conversation has been edited and is still
\* listed after the newer one.
C25_Witness ==
    \E c \in ConvIds :
        /\ Len(db.msgs) = 2
        /\ db.msgs[1].edited /\ db.msgs[1].content \in Edits
        /\ ~db.msgs[2].edited
        /\ NewestFirst(db, Selected(db, c)) = <<2, 1>>

\* C26: DeleteMessage removes no row: in every step the messages stored before
\* are still stored, each with its id, conversation, sender and created_at, a
\* message that was marked deleted stays marked, and a message marked deleted
\* has NULL content.
C26_DeletedRowIsKeptAndCleared ==
    [][/\ Len(db'.msgs) >= Len(db.msgs)
       /\ \A i \in 1..Len(db.msgs) :
             /\ db'.msgs[i].conv = db.msgs[i].conv
             /\ db'.msgs[i].sender = db.msgs[i].sender
             /\ db'.msgs[i].createdAt = db.msgs[i].createdAt
             /\ db.msgs[i].deleted => db'.msgs[i].deleted
             /\ db'.msgs[i].deleted => db'.msgs[i].content = Null]_vars

\* C27: LeaveConversation sets left_at on the row of the user and removes no
\* row: the row keeps its unread count and read cursor, every other row, every
\* conversation and every message is as it was, and the user is no longer an
\* active participant of the conversation.
C27_LeaveKeepsTheRow ==
    [][/\ DOMAIN db.parts \subseteq DOMAIN db'.parts
       /\ \A k \in DOMAIN db.parts :
             (~db.parts[k].left /\ db'.parts[k].left) =>
                /\ db'.parts[k] = [db.parts[k] EXCEPT !.left = TRUE]
                /\ \A o \in DOMAIN db.parts : o # k => db'.parts[o] = db.parts[o]
                /\ DOMAIN db'.parts = DOMAIN db.parts
                /\ db'.msgs = db.msgs
                /\ db'.convs = db.convs
                /\ ~IsParticipant(db', k[1], k[2])
                /\ k[2] \notin ActiveParticipants(db', k[1])]_vars

\* A user who read the first message of a conversation and had the second
\* unread has left it: the row still holds the cursor and the count.
C27_Witness ==
    \E k \in DOMAIN db.parts :
        /\ db.parts[k].left
        /\ db.parts[k].lastRead = 1
        /\ db.parts[k].unread = 1
        /\ MessagesOf(k[1]) = {1, 2}
        /\ ActiveParticipants(db, k[1]) # {}

\* C28: a typing or stop_typing frame of a client changes no row of
\* conversations, conversation_participants or messages: the readPump only
\* hands the event, with the conversation of the frame and the user of the
\* connection, to the hub, whose index, subscriptions and Send buffers it
\* leaves alone.
C28_TypingTouchesNoTable ==
    [][(Published("typing") \/ Published("stop_typing")) =>
          /\ db' = db
          /\ broadcast' = Append(broadcast, broadcast'[Len(broadcast')])
          /\ broadcast'[Len(broadcast')].msg = 0
          /\ \E cl \in ClientIds :
                 /\ rp[cl] = "read"
                 /\ broadcast'[Len(broadcast')].user = cuser[cl]
          /\ UNCHANGED <<clients, conversations, send, sendClosed>>]_vars

\* A subscriber holds the typing notice of another user's connection, and the
\* tables are as they were at the start.
C28_Witness ==
    \E cl \in ClientIds :
        /\ send[cl] # <<>>
        /\ Head(send[cl]).type = "typing"
        /\ Head(send[cl]).user # cuser[cl]
        /\ cl \in conversations[Head(send[cl]).conv]
        /\ db = SeedDb

\* C29: a user who is not an active participant of an existing conversation
\* gets from GetConversation, SendMessage and GetMessages what the same call
\* gets for a conversation id that does not exist: the same error
\* (NotParticipant), the same answer of the handler, no data, no change of the
\* tables and no event.
C29_ExistenceIsNotLeaked ==
    \A u \in Users, c \in 1..Len(db.convs) :
        NotActive(db, c, u) =>
            LET none == Len(db.convs) + 1
            IN  /\ GetConversation(db, c, u) = GetConversation(db, none, u)
                /\ GetConversation(db, c, u).err = "NotParticipant"
                /\ HandlerGetConversation(GetConversation(db, c, u))
                       = HandlerGetConversation(GetConversation(db, none, u))
                /\ \A content \in Contents :
                       /\ SendMessage(db, u, c, content) = SendMessage(db, u, none, content)
                       /\ SendMessage(db, u, c, content).res.err = "NotParticipant"
                       /\ HandlerSendMessage(SendMessage(db, u, c, content).res)
                              = HandlerSendMessage(SendMessage(db, u, none, content).res)
                /\ \A limit \in {0, 1}, offset \in {0, 1} :
                       /\ GetMessages(db, c, u, limit, offset)
                              = GetMessages(db, none, u, limit, offset)
                       /\ GetMessages(db, c, u, limit, offset).err = "NotParticipant"
                       /\ HandlerGetMessages(GetMessages(db, c, u, limit, offset))
                              = HandlerGetMessages(GetMessages(db, none, u, limit, offset))

\* The watched caller asked for a conversation that exists, holds a message
\* and which the caller never joined, and got NotParticipant.
C29_Witness ==
    /\ reply.op = "GetConversation"
    /\ reply.err = "NotParticipant"
    /\ ConvExists(db, reply.x)
    /\ ~HasRow(db, reply.x, reply.u)
    /\ MessagesOf(reply.x) # {}

\* The time of the last activity in conversation c: that of its last message,
\* or of its creation while it has no message.
ActivityOf(c) ==
    IF MessagesOf(c) = {} THEN db.convs[c].createdAt
    ELSE db.msgs[db.convs[c].lastMessageId].createdAt

\* C30: GetUserConversations of user u returns exactly the conversations in
\* which u has a row that is neither left nor archived, each once, the one
\* with the latest activity first: the time of the last message, or of the
\* creation for a conversation without messages.
C30_ListsActiveConversationsByActivity ==
    \A u \in Users :
        LET l == ServiceGetUserConversations(db, u, 0, 0)
        IN  /\ l.err = "ok"
            /\ {l.ids[i] : i \in 1..Len(l.ids)}
                   = {c \in 1..Len(db.convs) :
                         /\ <<c, u>> \in DOMAIN db.parts
                         /\ ~db.parts[<<c, u>>].left
                         /\ ~db.parts[<<c, u>>].archived}
            /\ \A i, j \in 1..Len(l.ids) :
                   i < j => /\ l.ids[i] # l.ids[j]
                            /\ ActivityOf(l.ids[i]) > ActivityOf(l.ids[j])
            /\ \A i \in 1..Len(l.ids) : l.rows[i] = db.convs[l.ids[i]]

\* The watched caller listed a user's conversations: the older conversation,
\* which has a message, came before the newer one, which has none, and a
\* conversation the user has archived or left is missing from another listing.
C30_Witness ==
    /\ reply.op = "GetUserConversations"
    /\ reply.list.ids = <<1, 2>>
    /\ MessagesOf(1) # {} /\ MessagesOf(2) = {}
    /\ LastActivity(db, 1) > LastActivity(db, 2)
    /\ \E u \in Users : Len(ServiceGetUserConversations(db, u, 0, 0).ids) < 2

\* C31: registering a Client that is registered already leaves the hub as it
\* was, the user index holding the client once, and one unregisterClient
\* afterwards leaves the client in no entry of the user index and in no
\* subscriber set.
C31_RegisterIsIdempotent ==
    [][/\ (reply' # reply /\ reply'.op = "Register")
            => /\ reply'.x \in clients[reply'.u]
               /\ UNCHANGED <<clients, conversations, send, sendClosed, unregs, fatal>>
       /\ \A cl \in ClientIds :
            unregs'[cl] # unregs[cl]
                => /\ \A u \in Users : cl \notin clients'[u]
                   /\ \A c \in ConvIds : cl \notin conversations'[c]]_vars

\* A client was registered again while its user had another client connected,
\* and has been unregistered once since: it is gone from the index and the
\* other client is still there.
C31_Witness ==
    /\ reply.op = "Register"
    /\ unregs[reply.x] = 1
    /\ rp[reply.x] = "closed"
    /\ reply.x \notin clients[reply.u]
    /\ \E cl \in ClientIds : cl # reply.x /\ cl \in clients[reply.u]

\* C32: when Hub.Run takes an event of a conversation that no client is
\* subscribed to, broadcastToConversation returns without a panic and changes
\* neither the user index, nor a subscriber set, nor a Send channel.
C32_BroadcastToNobodyIsNoOp ==
    [][(/\ broadcast # <<>>
        /\ broadcast' = Tail(broadcast)
        /\ conversations[Head(broadcast).conv] = {})
           => /\ fatal' = "no"
              /\ UNCHANGED <<clients, conversations, send, sendClosed, unregs>>]_vars

\* The hub has taken a typing event although no client is subscribed to any
\* conversation: a client is connected, and every Send is empty and open.
C32_Witness ==
    /\ typed = 1
    /\ broadcast = <<>>
    /\ fatal = "no"
    /\ \A c \in ConvIds : conversations[c] = {}
    /\ \E cl \in ClientIds : rp[cl] = "read" /\ cl \in clients[cuser[cl]]
    /\ \A cl \in ClientIds : send[cl] = <<>> /\ ~sendClosed[cl]

\* C33: a CreateMessage by sender s in conversation c leaves the unread count
\* of s's own row of c as it was, and that of every row of c whose user has
\* left (left_at is set).
C33_SendSkipsSenderAndLeft ==
    [][Len(db'.msgs) = Len(db.msgs) + 1 =>
        LET m == Len(db'.msgs)
            c == db'.msgs[m].conv
            s == db'.msgs[m].sender
        IN  \A k \in DOMAIN db.parts :
                (k[1] = c /\ (k[2] = s \/ db.parts[k].left))
                    => db'.parts[k].unread = db.parts[k].unread]_vars

\* C34: whatever SendMessage, EditMessage and DeleteMessage calls have
\* completed, an edit by the sender after the delete included, every message
\* with is_deleted set has NULL content.
C34_DeletedHasNoContent ==
    \A m \in 1..Len(db.msgs) : db.msgs[m].deleted => db.msgs[m].content = Null

\* C36: every client in a subscriber set is registered, that is in the user
\* index under its own UserID, and its Send is open; and no step adds to a
\* subscriber set a client that is not registered or whose Send is closed.
C36_SubscribersAreRegistered ==
    [][\A c \in ConvIds, cl \in ClientIds :
          /\ cl \in conversations'[c]
                => /\ cl \in clients'[cuser'[cl]]
                   /\ \A u \in Users : cl \in clients'[u] => u = cuser'[cl]
                   /\ ~sendClosed'[cl]
          /\ (cl \in conversations'[c] /\ cl \notin conversations[c])
                => /\ cl \in clients[cuser[cl]]
                   /\ ~sendClosed[cl]
                   /\ unregs[cl] = 0]_vars

\* One client is subscribed to a conversation, registered and open, while
\* another has been unregistered: its Send is closed and it is in no subscriber
\* set.
C36_Witness ==
    \E cl, gone \in ClientIds, c \in ConvIds :
        /\ cl \in conversations[c] /\ cl \in clients[cuser[cl]] /\ ~sendClosed[cl]
        /\ unregs[gone] = 1 /\ sendClosed[gone]
        /\ \A o \in ConvIds : gone \notin conversations[o]

\* User u has a client that was registered and is not unregistered yet.
Connected(u) ==
    \E cl \in ClientIds : rp[cl] # "new" /\ unregs[cl] = 0 /\ cuser[cl] = u

\* C37: IsUserOnline(u) answers true exactly when a client of u has been
\* registered and not unregistered since, GetOnlineUsers(ids) answers the ids
\* of the list, in its order, for which that is so, and neither changes the
\* user index, a subscriber set or a Send channel.
C37_PresenceReadsTheIndex ==
    [][/\ (reply' # reply /\ reply'.op = "IsUserOnline")
            => /\ (reply'.err = "true") <=> Connected(reply'.u)
               /\ reply'.err \in {"true", "false"}
               /\ UNCHANGED <<clients, conversations, send, sendClosed, unregs, fatal>>
       /\ (reply' # reply /\ reply'.op = "GetOnlineUsers")
            => /\ reply'.list.ids = SelectSeq(reply'.list.rows, Connected)
               /\ UNCHANGED <<clients, conversations, send, sendClosed, unregs, fatal>>]_vars

\* Asked about users 1 and 2, GetOnlineUsers answered user 2 alone: user 1 had a client, which has been unregistered.
C37_Witness ==
    /\ reply.op = "GetOnlineUsers"
    /\ reply.list.rows = <<1, 2>>
    /\ reply.list.ids = <<2>>
    /\ \E cl \in ClientIds : cuser[cl] = 1 /\ unregs[cl] = 1
    /\ clients[1] = {} /\ clients[2] # {}

\* C38: the new_message events of one conversation stand in a client's Send in
\* the order in which their messages were created, also when the SendMessage
\* calls that stored them ran concurrently.
C38_EventsInCreationOrder ==
    \A cl \in ClientIds :
        \A i, j \in 1..Len(send[cl]) :
            (/\ i < j
             /\ send[cl][i].type = "new_message" /\ send[cl][j].type = "new_message"
             /\ send[cl][i].conv = send[cl][j].conv)
                => db.msgs[send[cl][i].msg].createdAt < db.msgs[send[cl][j].msg].createdAt

====
